---- MODULE Spec2Model ----
(***************************************************************************)
(* A model of rust-s3-downloader (src/src/main.rs): main, the paginated    *)
(* lister list_all_objects, the differ find_missing_items, the three       *)
(* semaphore-bounded schedulers get_missing_objects, download_all_objects  *)
(* and upload_missing_objects, and the workers process_object and          *)
(* upload_object.                                                          *)
(*                                                                         *)
(* Representation.  Option<T> is a sequence of length 0 (None) or 1        *)
(* (Some).  A file name is a string; a path and an object key are          *)
(* sequences of names (the key "d/b" is <<"d", "b">>, the empty string is  *)
(* <<>>).  A continuation token is the index of the page it resumes at.    *)
(***************************************************************************)
EXTENDS Integers, Sequences, FiniteSets, TLC

VARIABLES
    env,                \* the run's inputs: the command line, the build, the region
                        \* configuration, both buckets' pages, the staging tree at start
    pc,                 \* main's position
    outcome,            \* "running", or how the process ended: "ok" (exit 0), "err"
                        \* (main returned Err), "panic", "usage" (clap rejected the command line)
    continuation_token, \* list_all_objects: the token of the next request
    all_objects,        \* list_all_objects: the objects accumulated so far
    list_result,        \* <<>> or <<r>>: the value list_all_objects returned to main
    list_log,           \* every list request sent, with the response it got
    download_objects,   \* main: the source listing
    upload_objects,     \* main: the destination listing
    missing_items,      \* main: the HashSet find_missing_items returned
    tasks,              \* the scheduler's Vec of spawned tasks
    permits,            \* free permits of the scheduler's semaphore
    fs,                 \* the local file system: files with their content, and directories
    file_paths,         \* upload_missing_objects: the entries glob yields, in order
    walk,               \* upload_missing_objects: index of the next entry of file_paths
    gets,               \* get-object requests issued
    puts                \* put-object requests issued

vars == <<env, pc, outcome, continuation_token, all_objects, list_result, list_log,
          download_objects, upload_objects, missing_items, tasks, permits, fs,
          file_paths, walk, gets, puts>>

(***************************************************************************)
(* Bounds of the model.                                                    *)
(***************************************************************************)
\* The permit-pool capacity.  main.rs:18 sets 30; the model runs the same
\* schedulers with a pool small enough that three items contend for it.
MAX_CONCURRENT_OPERATIONS == 2
\* list requests a single list_all_objects call may send before the model stops it
MaxRequests == 3
\* pages of a bucket in the lister's own specification
MaxPages == 2
\* objects per page when a listing is cut into well-formed pages
PageSize == 2
\* length of the listings handed to find_missing_items in its own specification
MaxLen == 2

None == <<>>
Some(x) == <<x>>

RECURSIVE SeqToSet(_)
SeqToSet(s) == IF s = <<>> THEN {} ELSE {Head(s)} \cup SeqToSet(Tail(s))

SeqsUpTo(S, n) == UNION {[1..k -> S] : k \in 0..n}

(***************************************************************************)
(* Names, bytes and paths.                                                 *)
(***************************************************************************)
\* The bytes that occur in the names of the model, in increasing byte order.
Alphabet == <<"*", ".", "[", "a", "b", "c", "d", "o", "r", "s", "x">>
Ord(c) == CHOOSE i \in 1..Len(Alphabet) : Alphabet[i] = c

\* A name as its sequence of bytes.
Chars(n) ==
    CASE n = "s*"  -> <<"s", "*">>
      [] n = "s["  -> <<"s", "[">>
      [] n = "sx"  -> <<"s", "x">>
      [] n = "src" -> <<"s", "r", "c">>
      [] OTHER     -> <<n>>

\* OsStr ordering: lexicographic on bytes.
RECURSIVE BytesLess(_, _)
BytesLess(a, b) ==
    IF b = <<>> THEN FALSE
    ELSE IF a = <<>> THEN TRUE
    ELSE IF Head(a) # Head(b) THEN Ord(Head(a)) < Ord(Head(b))
    ELSE BytesLess(Tail(a), Tail(b))

NameLess(m, n) == BytesLess(Chars(m), Chars(n))

\* The order in which glob yields two entries: a directory before what it
\* contains, siblings by file name.
RECURSIVE PathLess(_, _)
PathLess(p, q) ==
    IF q = <<>> THEN FALSE
    ELSE IF p = <<>> THEN TRUE
    ELSE IF Head(p) # Head(q) THEN NameLess(Head(p), Head(q))
    ELSE PathLess(Tail(p), Tail(q))

RECURSIVE SortPaths(_)
SortPaths(S) ==
    IF S = {} THEN <<>>
    ELSE LET m == CHOOSE p \in S : \A q \in S \ {p} : PathLess(p, q)
         IN  <<m>> \o SortPaths(S \ {m})

\* glob::Pattern::matches on one path component: "*" matches any run of bytes.
RECURSIVE PatternMatches(_, _)
PatternMatches(pat, s) ==
    IF pat = <<>> THEN s = <<>>
    ELSE IF Head(pat) = "*"
         THEN \/ PatternMatches(Tail(pat), s)
              \/ s # <<>> /\ PatternMatches(pat, Tail(s))
    ELSE /\ s # <<>>
         /\ Head(s) = Head(pat)
         /\ PatternMatches(Tail(pat), Tail(s))

\* Path::components: "." is kept only as the first component.
RECURSIVE DropCurDir(_)
DropCurDir(p) ==
    IF p = <<>> THEN <<>>
    ELSE IF Head(p) = "." THEN DropCurDir(Tail(p))
    ELSE <<Head(p)>> \o DropCurDir(Tail(p))

Components(p) ==
    IF p # <<>> /\ Head(p) = "." THEN <<".">> \o DropCurDir(Tail(p)) ELSE DropCurDir(p)

\* Where the operating system finds the path p, relative to the working directory.
Resolve(p) == DropCurDir(p)

IsPrefix(p, q) == Len(p) <= Len(q) /\ SubSeq(q, 1, Len(p)) = p

\* Path::strip_prefix(base): Ok(rest) as <<rest>>, Err as <<>>.
strip_prefix(path, base) ==
    IF IsPrefix(Components(base), Components(path))
    THEN Some(SubSeq(Components(path), Len(Components(base)) + 1, Len(Components(path))))
    ELSE None

(***************************************************************************)
(* The local file system: files (path -> content) and directories, both    *)
(* by resolved path.                                                       *)
(***************************************************************************)
EmptyFs == [files |-> <<>>, dirs |-> {}]

Prefixes(p) == {SubSeq(p, 1, k) : k \in 1..Len(p)}

Parent(p) == SubSeq(p, 1, Len(p) - 1)

IsFile(f, p) == p \in DOMAIN f.files

IsDir(f, p) == p \in f.dirs

\* Path::exists: something is at p, a file or a directory
Exists(f, p) == IsFile(f, p) \/ IsDir(f, p)

\* one mkdir(2): the directory q is made
mkdir(f, q) == [f EXCEPT !.dirs = @ \cup {q}]

\* the directories that fs::create_dir_all(p) has still to make
MissingDirs(f, p) == {q \in Prefixes(p) : ~IsDir(f, q)}

\* the one it makes next: the topmost of them
NextDir(f, p) == CHOOSE q \in MissingDirs(f, p) : \A r \in MissingDirs(f, p) : Len(q) <= Len(r)

\* the tree once fs::create_dir_all(p) has made p and every directory above it
create_dir_all(f, p) == [f EXCEPT !.dirs = @ \cup Prefixes(p)]

\* the file at p holds `content`
WriteFile(f, p, content) == [f EXCEPT !.files = (p :> content) @@ @]

\* What a file of the object `key` holds: complete = TRUE when all the
\* bytes of the object are in the file, pending = TRUE while a write that
\* write_all handed to the blocking pool has not been carried out yet.
ObjectData(key, complete) ==
    [kind |-> "object", key |-> key, complete |-> complete, pending |-> FALSE]

\* line 333: tokio's File::write_all copies the bytes into the file's
\* buffer, starts the write on the blocking pool and returns Ok; nothing
\* flushes the file afterwards, so the bytes reach the file later
PendingData(key) ==
    [kind |-> "object", key |-> key, complete |-> FALSE, pending |-> TRUE]

\* A file that was in the staging tree before the run.
OldData == [kind |-> "old", key |-> <<>>, complete |-> TRUE, pending |-> FALSE]

\* A file system holding the single old file p.
FsWith(p) == WriteFile(create_dir_all(EmptyFs, Parent(p)), p, OldData)

(***************************************************************************)
(* glob(pattern) for the pattern "{dir}/**/*".                             *)
(***************************************************************************)
\* glob drops the leading "." components of a pattern from the paths it builds.
RECURSIVE StripLeadingCurDir(_)
StripLeadingCurDir(p) ==
    IF p # <<>> /\ Head(p) = "." THEN StripLeadingCurDir(Tail(p)) ELSE p

\* glob::Pattern::new rejects a "[" that no "]" closes (invalid range
\* pattern); no name of these runs holds a "]"
GlobPatternError(dir) ==
    \E n \in DOMAIN dir : \E k \in DOMAIN Chars(dir[n]) : Chars(dir[n])[k] = "["

\* The directories the components of `dir` match.
GlobRoots(f, dir) ==
    LET pat == StripLeadingCurDir(dir)
    IN  {r \in f.dirs :
            /\ Len(r) = Len(pat)
            /\ \A i \in 1..Len(pat) : PatternMatches(Chars(pat[i]), Chars(r[i]))}

\* Everything below a matched directory, directories included, in glob's order.
glob(f, dir) ==
    LET roots == GlobRoots(f, dir)
        below == {p \in (DOMAIN f.files) \cup f.dirs :
                     \E r \in roots : IsPrefix(r, p) /\ Len(p) > Len(r)}
    IN  SortPaths(below)

(***************************************************************************)
(* The remote buckets.                                                     *)
(***************************************************************************)
Object(k) == [key |-> Some(k)]
NoKeyObject == [key |-> None]

Page(contents, truncated, next) ==
    [contents |-> contents, is_truncated |-> truncated, next_continuation_token |-> next]

\* A listing cut into well-formed pages of PageSize objects, page i + 1
\* reached by the token i + 1; an empty bucket answers with one empty page.
RECURSIVE Paginate(_, _)
Paginate(objs, first) ==
    IF Len(objs) <= PageSize
    THEN <<Page(objs, Some(FALSE), None)>>
    ELSE <<Page(SubSeq(objs, 1, PageSize), Some(TRUE), Some(first + 1))>>
         \o Paginate(SubSeq(objs, PageSize + 1, Len(objs)), first + 1)

\* The service's answer to a list request carrying `token`.
Respond(pages, token) == pages[IF token = None THEN 1 ELSE token[1]]

\* non-final pages truncated with a token to the next page, the last not truncated
WellFormed(pages) ==
    /\ pages # <<>>
    /\ \A i \in 1..(Len(pages) - 1) :
          /\ pages[i].is_truncated = Some(TRUE)
          /\ pages[i].next_continuation_token = Some(i + 1)
    /\ pages[Len(pages)].is_truncated # Some(TRUE)

(***************************************************************************)
(* list_all_objects                                                        *)
(***************************************************************************)
Ok(v) == [tag |-> "Ok", val |-> v]
Err(e) == [tag |-> "Err", err |-> e]

Requests(b) == SelectSeq(list_log, LAMBDA r : r.bucket = b)

ListerPc(b) == IF b = "src" THEN "list_src" ELSE "list_dst"
ListedPc(b) == IF b = "src" THEN "src_listed" ELSE "dst_listed"

\* a lister that stops after its first page
ListContinues_Never(resp) == FALSE

\* lines 214-220: whether the loop goes round again after this response
ListContinues(resp) == resp.is_truncated = Some(TRUE)

\* a lister that hands back what it has when a page request fails
ListFailure_Partial(objects) == Ok(objects)

\* the value the call returns when a page request fails (the ? of lines 198, 206)
ListFailure(objects) == Err("ListObjectsError")

ListUnchanged == UNCHANGED <<env, outcome, download_objects, upload_objects, missing_items,
                             tasks, permits, fs, file_paths, walk, gets, puts>>

\* one iteration of the loop whose request succeeds
ListPage(b) ==
    /\ pc = ListerPc(b)
    /\ Len(Requests(b)) < MaxRequests
    /\ LET resp == Respond(env.pages[b], continuation_token)
       IN  /\ list_log' = Append(list_log,
                  [bucket |-> b, token |-> continuation_token, ok |-> TRUE,
                   is_truncated |-> resp.is_truncated,
                   next_continuation_token |-> resp.next_continuation_token])
           /\ all_objects' = all_objects \o resp.contents
           /\ IF ListContinues(resp)
              THEN /\ continuation_token' = resp.next_continuation_token
                   /\ UNCHANGED <<pc, list_result>>
              ELSE /\ list_result' = Some(Ok(all_objects'))
                   /\ pc' = ListedPc(b)
                   /\ UNCHANGED continuation_token
    /\ ListUnchanged

\* one iteration of the loop whose request fails
ListRequestFails(b) ==
    /\ pc = ListerPc(b)
    /\ Len(Requests(b)) < MaxRequests
    /\ list_log' = Append(list_log,
           [bucket |-> b, token |-> continuation_token, ok |-> FALSE,
            is_truncated |-> None, next_continuation_token |-> None])
    /\ list_result' = Some(ListFailure(all_objects))
    /\ pc' = ListedPc(b)
    /\ UNCHANGED <<continuation_token, all_objects>>
    /\ ListUnchanged

(***************************************************************************)
(* find_missing_items                                                      *)
(***************************************************************************)
EmptyString == <<>>

\* ObjectKey::from(object).key
ObjectKeyFrom(object) == IF object.key = None THEN EmptyString ELSE object.key[1]

\* iter().map(..).collect::<HashSet<_>>()
RECURSIVE CollectKeys(_)
CollectKeys(objects) ==
    IF objects = <<>> THEN {}
    ELSE {ObjectKeyFrom(Head(objects))} \cup CollectKeys(Tail(objects))

\* the symmetric difference
Difference_Symmetric(a, b) == {k \in a : k \notin b} \cup {k \in b : k \notin a}

\* HashSet::difference
Difference(a, b) == {k \in a : k \notin b}

find_missing_items(old_bucket_items, new_bucket_items) ==
    LET au_set == CollectKeys(old_bucket_items)
        us_set == CollectKeys(new_bucket_items)
    IN  Difference(au_set, us_set)

(***************************************************************************)
(* Tasks and the semaphore.  A task is "waiting" from tokio::spawn until   *)
(* sema_clone.acquire() gives it a permit, "running" while its worker      *)
(* runs with the permit held, and "done" once the worker has returned or   *)
(* panicked and _permit has been dropped.  While it runs, `at` is the      *)
(* await the worker has reached; the tasks run on a multi-thread runtime,  *)
(* so the steps of different tasks and of main interleave.                 *)
(***************************************************************************)
Task(kind, key, path) ==
    [kind |-> kind, key |-> key, path |-> path, st |-> "waiting", at |-> "start",
     data |-> None, out |-> "none"]

Running == {i \in DOMAIN tasks : tasks[i].st = "running"}

AllDone == \A i \in DOMAIN tasks : tasks[i].st = "done"

\* a semaphore that never makes a task wait
CanAcquire_Unbounded(free) == TRUE

\* Semaphore::acquire can complete
CanAcquire(free) == free > 0

\* lines 262, 287, 376: let _permit = sema_clone.acquire().await.unwrap()
Acquire(i) ==
    /\ pc # "done"
    /\ i \in DOMAIN tasks
    /\ tasks[i].st = "waiting"
    /\ CanAcquire(permits)
    /\ permits' = permits - 1
    /\ tasks' = [tasks EXCEPT ![i].st = "running"]
    /\ UNCHANGED <<env, pc, outcome, continuation_token, all_objects, list_result, list_log,
                   download_objects, upload_objects, missing_items, fs, file_paths, walk,
                   gets, puts>>

\* what the steps of a worker leave alone
WorkerUnchanged == UNCHANGED <<env, pc, outcome, continuation_token, all_objects, list_result,
                               list_log, download_objects, upload_objects, missing_items,
                               file_paths, walk>>

\* task i holds its permit and its worker stands at the await `at`; when
\* main has returned the runtime is shut down and no task goes on
AtStep(i, kind, at) ==
    /\ pc # "done"
    /\ i \in DOMAIN tasks
    /\ tasks[i].kind = kind
    /\ tasks[i].st = "running"
    /\ tasks[i].at = at

\* the permit count when every task that ends with a failure keeps its permit
Release_LeakOnError(free, out) == IF out = "ok" THEN free + 1 ELSE free

\* lines 262 and 376: _permit is a local of the task body, dropped when the
\* body ends, whether by return or by the unwinding of a panic
Release(free, out) == free + 1

\* the task body ends with outcome o and its permit is dropped
EndTask(i, o) ==
    /\ tasks' = [tasks EXCEPT ![i].st = "done", ![i].out = o]
    /\ permits' = Release(permits, o)

\* the worker of task i goes on to its next await
MoveTo(i, at) ==
    /\ tasks' = [tasks EXCEPT ![i].at = at]
    /\ UNCHANGED permits

\* the ways process_object ends: "get_err" is the ? of line 301, the others
\* the returns of lines 306, 320, 330, 337 and 343
DownloadOutcomes == {"ok", "get_err", "body_err", "mkdir_err", "create_err", "write_err"}

\* line 311: PathBuf::from(format!("{path}/")).join(&bucket).join(&key)
LocalPath(path, bucket, key) == path \o <<bucket>> \o key

\* where the file of task i's object goes
DownloadPath(i) == Resolve(LocalPath(env.download_path, env.bucket, tasks[i].key[1]))

\* the line process_object prints before it returns with outcome o (lines
\* 305, 319, 329, 336); the ? of line 301 returns the error with no line
\* printed, and the caller drops the result of the task (lines 266, 291)
process_object_prints(key, o) ==
    CASE o = "body_err"   -> Some([text |-> "Got an error downloading", key |-> key])
      [] o = "mkdir_err"  -> Some([text |-> "Got an error create file", key |-> key])
      [] o = "create_err" -> Some([text |-> "Got an error create file", key |-> key])
      [] o = "write_err"  -> Some([text |-> "Got an error writing file", key |-> key])
      [] OTHER            -> None

\* line 288 (download_all_objects): object.key.unwrap() panics before
\* process_object is called
DownloadKeyPanics(i) ==
    /\ AtStep(i, "download", "start")
    /\ tasks[i].key = None
    /\ EndTask(i, "panic")
    /\ UNCHANGED <<fs, gets, puts>>
    /\ WorkerUnchanged

\* line 301: the get-object request is sent
DownloadSend(i) ==
    /\ AtStep(i, "download", "start")
    /\ tasks[i].key # None
    /\ gets' = gets \cup {[bucket |-> env.bucket, key |-> tasks[i].key[1]]}
    /\ MoveTo(i, "get_sent")
    /\ UNCHANGED <<fs, puts>>
    /\ WorkerUnchanged

\* line 301: the request fails and ? returns the error
DownloadGetFails(i) ==
    /\ AtStep(i, "download", "get_sent")
    /\ EndTask(i, "get_err")
    /\ UNCHANGED <<fs, gets, puts>>
    /\ WorkerUnchanged

\* lines 302-307: the body cannot be read
DownloadBodyFails(i) ==
    /\ AtStep(i, "download", "get_sent")
    /\ EndTask(i, "body_err")
    /\ UNCHANGED <<fs, gets, puts>>
    /\ WorkerUnchanged

\* lines 301-315: the response and its body have arrived and the worker
\* runs on, without an await, to the test of parent.exists(), which is true
\* of a file as well as of a directory
DownloadFetched(i) ==
    /\ AtStep(i, "download", "get_sent")
    /\ MoveTo(i, IF Exists(fs, Parent(DownloadPath(i))) THEN "dir_ok" ELSE "mkdir")
    /\ UNCHANGED <<fs, gets, puts>>
    /\ WorkerUnchanged

\* line 316: create_dir_all, called because nothing was at the parent's
\* path when it was tested, makes the missing directories from the top
\* down, one mkdir at a time; the other tasks see each as soon as it is made
DownloadMkdirStep(i) ==
    /\ AtStep(i, "download", "mkdir")
    /\ MissingDirs(fs, Parent(DownloadPath(i))) # {}
    /\ ~IsFile(fs, NextDir(fs, Parent(DownloadPath(i))))
    /\ fs' = mkdir(fs, NextDir(fs, Parent(DownloadPath(i))))
    /\ UNCHANGED <<tasks, permits, gets, puts>>
    /\ WorkerUnchanged

\* lines 316-317: create_dir_all returns Ok: every directory is there, made
\* by this call or by another task
DownloadMkdir(i) ==
    /\ AtStep(i, "download", "mkdir")
    /\ MissingDirs(fs, Parent(DownloadPath(i))) = {}
    /\ MoveTo(i, "dir_ok")
    /\ UNCHANGED <<fs, gets, puts>>
    /\ WorkerUnchanged

\* lines 316-321: a mkdir of create_dir_all fails (on a file that lies
\* where the directory should be, for one); what it had made stays
DownloadMkdirFails(i) ==
    /\ AtStep(i, "download", "mkdir")
    /\ MissingDirs(fs, Parent(DownloadPath(i))) # {}
    /\ EndTask(i, "mkdir_err")
    /\ UNCHANGED <<fs, gets, puts>>
    /\ WorkerUnchanged

\* the worker is about to call File::create (line 326): something was at
\* the parent's path when it was tested, or create_dir_all has returned Ok
AtCreate(i) == AtStep(i, "download", "dir_ok")

\* line 326: File::create makes the file, or empties the one that is there;
\* it cannot succeed on a directory (as for the empty key, whose path is the
\* bucket's directory) nor below a parent that is not a directory
DownloadCreate(i) ==
    /\ AtCreate(i)
    /\ tasks[i].key[1] # EmptyString
    /\ ~IsDir(fs, DownloadPath(i))
    /\ IsDir(fs, Parent(DownloadPath(i)))
    /\ fs' = WriteFile(fs, DownloadPath(i), ObjectData(tasks[i].key[1], FALSE))
    /\ MoveTo(i, "created")
    /\ UNCHANGED <<gets, puts>>
    /\ WorkerUnchanged

\* lines 326-331: File::create fails
DownloadCreateFails(i) ==
    /\ AtCreate(i)
    /\ EndTask(i, "create_err")
    /\ UNCHANGED <<fs, gets, puts>>
    /\ WorkerUnchanged

\* lines 333 and 343: write_all returns Ok with the bytes still on their
\* way to the file, and process_object returns Ok
DownloadWrite(i) ==
    /\ AtStep(i, "download", "created")
    /\ fs' = WriteFile(fs, DownloadPath(i), PendingData(tasks[i].key[1]))
    /\ EndTask(i, "ok")
    /\ UNCHANGED <<gets, puts>>
    /\ WorkerUnchanged

\* lines 333-338: write_all reports a failed write (a body larger than the
\* file's buffer); the file stays as it is, short
DownloadWriteFails(i) ==
    /\ AtStep(i, "download", "created")
    /\ EndTask(i, "write_err")
    /\ UNCHANGED <<fs, gets, puts>>
    /\ WorkerUnchanged

BackgroundUnchanged == UNCHANGED <<env, pc, outcome, continuation_token, all_objects,
                                   list_result, list_log, download_objects, upload_objects,
                                   missing_items, tasks, permits, file_paths, walk, gets, puts>>

\* the blocking pool carries out a write that write_all left pending
BackgroundWrite(p) ==
    /\ p \in DOMAIN fs.files
    /\ fs.files[p].pending
    /\ fs' = WriteFile(fs, p, ObjectData(fs.files[p].key, TRUE))
    /\ BackgroundUnchanged

\* the pending write fails on the blocking pool: nobody is told
BackgroundWriteFails(p) ==
    /\ p \in DOMAIN fs.files
    /\ fs.files[p].pending
    /\ fs' = WriteFile(fs, p, ObjectData(fs.files[p].key, FALSE))
    /\ BackgroundUnchanged

\* the ways upload_object ends: "io_err" is the ? of lines 392 and 394,
\* "put_err" the ? of line 402
UploadOutcomes == {"ok", "io_err", "put_err"}

\* the put-object request of lines 396-402 with the bytes `body`; ok = TRUE
\* once the service has accepted it
PutRequest(bucket, key, path, body, ok) ==
    [bucket |-> bucket, key |-> key, path |-> path, body |-> body, ok |-> ok]

\* line 392: File::open fails and ? returns the error
UploadOpenFails(i) ==
    /\ AtStep(i, "upload", "start")
    /\ EndTask(i, "io_err")
    /\ UNCHANGED <<fs, gets, puts>>
    /\ WorkerUnchanged

\* line 392: the file is open
UploadOpen(i) ==
    /\ AtStep(i, "upload", "start")
    /\ MoveTo(i, "opened")
    /\ UNCHANGED <<fs, gets, puts>>
    /\ WorkerUnchanged

\* line 394: read_to_end fails and ? returns the error
UploadReadFails(i) ==
    /\ AtStep(i, "upload", "opened")
    /\ EndTask(i, "io_err")
    /\ UNCHANGED <<fs, gets, puts>>
    /\ WorkerUnchanged

\* lines 393-394: read_to_end takes what the file holds at this moment
UploadRead(i) ==
    /\ AtStep(i, "upload", "opened")
    /\ tasks' = [tasks EXCEPT ![i].at = "read",
                              ![i].data = Some(fs.files[Resolve(tasks[i].path)])]
    /\ UNCHANGED <<permits, fs, gets, puts>>
    /\ WorkerUnchanged

\* lines 396-402: the put-object request is sent with the bytes read
UploadSend(i) ==
    /\ AtStep(i, "upload", "read")
    /\ puts' = puts \cup {PutRequest(env.upload_bucket[1], tasks[i].key[1], tasks[i].path,
                                     tasks[i].data[1], FALSE)}
    /\ MoveTo(i, "put_sent")
    /\ UNCHANGED <<fs, gets>>
    /\ WorkerUnchanged

\* line 402: the request fails and ? returns the error
UploadPutFails(i) ==
    /\ AtStep(i, "upload", "put_sent")
    /\ EndTask(i, "put_err")
    /\ UNCHANGED <<fs, gets, puts>>
    /\ WorkerUnchanged

\* lines 402-406: the request is answered, "Uploaded: key" is printed
UploadPutOk(i) ==
    /\ AtStep(i, "upload", "put_sent")
    /\ puts' = {IF q.path = tasks[i].path THEN [q EXCEPT !.ok = TRUE] ELSE q : q \in puts}
    /\ EndTask(i, "ok")
    /\ UNCHANGED <<fs, gets>>
    /\ WorkerUnchanged

(***************************************************************************)
(* get_missing_objects and download_all_objects                            *)
(***************************************************************************)
SchedulerUnchanged == UNCHANGED <<env, outcome, continuation_token, all_objects, list_result,
                                  list_log, download_objects, upload_objects, missing_items,
                                  fs, file_paths, walk, gets, puts>>

SpawnedKeys == {tasks[i].key[1] : i \in DOMAIN tasks}

\* lines 254-265: the loop spawns a task for the next key of the HashSet,
\* which iterates in no particular order
GetSpawn ==
    /\ pc = "get_spawn"
    /\ \E key \in missing_items \ SpawnedKeys :
          tasks' = Append(tasks, Task("download", Some(key), <<>>))
    /\ UNCHANGED <<pc, permits>>
    /\ SchedulerUnchanged

\* a join that gives up at the first task that failed (try_join_all)
JoinReady_FailFast == AllDone \/ \E i \in DOMAIN tasks : tasks[i].out \notin {"none", "ok"}

\* join_all(tasks) is ready
JoinReady == AllDone

\* lines 266-267: join_all(tasks).await; Ok(())
GetJoin ==
    /\ pc = "get_spawn"
    /\ missing_items \ SpawnedKeys = {}
    /\ JoinReady
    /\ pc' = "get_ret"
    /\ UNCHANGED <<tasks, permits>>
    /\ SchedulerUnchanged

\* lines 279-290: a task for the next object of the Vec
DownloadAllSpawn ==
    /\ pc = "dl_spawn"
    /\ Len(tasks) < Len(download_objects)
    /\ tasks' = Append(tasks, Task("download", download_objects[Len(tasks) + 1].key, <<>>))
    /\ UNCHANGED <<pc, permits>>
    /\ SchedulerUnchanged

\* lines 291-292
DownloadAllJoin ==
    /\ pc = "dl_spawn"
    /\ Len(tasks) = Len(download_objects)
    /\ JoinReady
    /\ pc' = "dl_ret"
    /\ UNCHANGED <<tasks, permits>>
    /\ SchedulerUnchanged

(***************************************************************************)
(* upload_missing_objects                                                  *)
(***************************************************************************)
UploadUnchanged == UNCHANGED <<env, continuation_token, all_objects, list_result, list_log,
                               download_objects, upload_objects, missing_items, fs,
                               file_paths, gets, puts>>

InLoop == pc = "upload_loop" /\ walk <= Len(file_paths)

\* lines 361-363: a directory is skipped
UploadSkipDir ==
    /\ InLoop
    /\ IsDir(fs, file_paths[walk])
    /\ walk' = walk + 1
    /\ UNCHANGED <<pc, outcome, tasks, permits>>
    /\ UploadUnchanged

\* line 367: path.strip_prefix(format!("{}/", dir))
UploadKey(path) == strip_prefix(path, env.download_path)

\* lines 364-378: a task for a file whose key could be derived
UploadSpawn ==
    /\ InLoop
    /\ ~IsDir(fs, file_paths[walk])
    /\ UploadKey(file_paths[walk]) # None
    /\ tasks' = Append(tasks, Task("upload", UploadKey(file_paths[walk]), file_paths[walk]))
    /\ walk' = walk + 1
    /\ UNCHANGED <<pc, outcome, permits>>
    /\ UploadUnchanged

\* what upload_missing_objects returns when strip_prefix fails (line 371)
StripFailure == Ok(<<>>)

\* lines 369-372: the function returns from inside the loop
UploadStripFails ==
    /\ InLoop
    /\ ~IsDir(fs, file_paths[walk])
    /\ UploadKey(file_paths[walk]) = None
    /\ pc' = "upload_ret"
    /\ UNCHANGED <<outcome, tasks, permits, walk>>
    /\ UploadUnchanged

\* line 360: local_path.unwrap() panics when glob could not read a directory,
\* the staging root or the directory it has just yielded
UploadGlobError ==
    /\ pc = "upload_loop"
    /\ \/ walk = 1 /\ GlobRoots(fs, env.download_path) # {}
       \/ walk > 1 /\ IsDir(fs, file_paths[walk - 1])
    /\ pc' = "done"
    /\ outcome' = "panic"
    /\ UNCHANGED <<tasks, permits, walk>>
    /\ UploadUnchanged

\* lines 382-383: join_all(tasks).await; Ok(())
UploadJoin ==
    /\ pc = "upload_loop"
    /\ walk > Len(file_paths)
    /\ JoinReady
    /\ pc' = "upload_ret"
    /\ UNCHANGED <<outcome, tasks, permits, walk>>
    /\ UploadUnchanged

(***************************************************************************)
(* main                                                                    *)
(***************************************************************************)
\* a scheduler that returns the first failure among its tasks' results
SchedulerResult_Propagated ==
    IF \E i \in DOMAIN tasks : tasks[i].out \notin {"none", "ok"}
    THEN Err("task failed") ELSE Ok(<<>>)

\* what a scheduler function returns once join_all is through: the
\* JoinHandles' results are dropped (lines 266-267, 291-292, 382-383)
SchedulerResult == Ok(<<>>)

MainUnchanged == UNCHANGED <<env, fs, gets, puts, list_log>>

\* lines 65-86: what Cli::parse makes of the command line.  --upload-profile
\* and --upload-region are both put in the group "input", whose members
\* exclude each other, and --upload-bucket requires that group; a debug
\* build panics in clap's check of the definition, where -p is the short
\* option of both --profile and --download-path
ParseCli(args) ==
    CASE args.build = "debug"                        -> "panic"
      [] args.upload_profile /\ args.upload_region   -> "usage"
      [] /\ args.upload_bucket # None
         /\ ~args.upload_profile
         /\ ~args.upload_region                       -> "usage"
      [] OTHER                                       -> "ok"

\* line 102, negated: upload profile and upload region are both there
UploadReady == env.upload_profile /\ env.upload_region

MainStepUnchanged == UNCHANGED <<continuation_token, all_objects, list_result, download_objects,
                                 upload_objects, missing_items, tasks, permits, file_paths, walk>>

\* line 90: Cli::parse() exits with a usage error, or panics
MainParseFails ==
    /\ pc = "parse"
    /\ ParseCli(env) # "ok"
    /\ pc' = "done"
    /\ outcome' = ParseCli(env)
    /\ MainStepUnchanged
    /\ MainUnchanged

\* line 90
MainParsed ==
    /\ pc = "parse"
    /\ ParseCli(env) = "ok"
    /\ pc' = "client"
    /\ UNCHANGED outcome
    /\ MainStepUnchanged
    /\ MainUnchanged

\* lines 93 and 160-164: get_region unwraps the region of the default
\* provider chain, whether or not --region was given
MainRegionPanics ==
    /\ pc = "client"
    /\ ~env.default_region
    /\ pc' = "done"
    /\ outcome' = "panic"
    /\ MainStepUnchanged
    /\ MainUnchanged

\* lines 92-96: the download client is made and the source listing starts
MainCreateClient ==
    /\ pc = "client"
    /\ env.default_region
    /\ pc' = "list_src"
    /\ UNCHANGED outcome
    /\ MainStepUnchanged
    /\ MainUnchanged

StartLister ==
    /\ continuation_token' = None
    /\ all_objects' = <<>>
    /\ list_result' = None

\* line 97: the ? on a failed source listing
MainSrcListFailed ==
    /\ pc = "src_listed"
    /\ list_result[1].tag = "Err"
    /\ pc' = "done"
    /\ outcome' = "err"
    /\ UNCHANGED <<continuation_token, all_objects, list_result, download_objects,
                   upload_objects, missing_items, tasks, permits, file_paths, walk>>
    /\ MainUnchanged

SrcListed ==
    /\ pc = "src_listed"
    /\ list_result[1].tag = "Ok"
    /\ download_objects' = list_result[1].val

\* lines 102-105: an upload bucket without upload profile or region
MainSkipUpload ==
    /\ SrcListed
    /\ env.upload_bucket # None
    /\ ~UploadReady
    /\ pc' = "done"
    /\ outcome' = "ok"
    /\ UNCHANGED <<continuation_token, all_objects, list_result, upload_objects,
                   missing_items, tasks, permits, file_paths, walk>>
    /\ MainUnchanged

\* lines 106-109: the destination is listed
MainListDst ==
    /\ SrcListed
    /\ env.upload_bucket # None
    /\ UploadReady
    /\ pc' = "list_dst"
    /\ StartLister
    /\ UNCHANGED <<outcome, upload_objects, missing_items, tasks, permits, file_paths, walk>>
    /\ MainUnchanged

\* lines 126-141 and 276-277: no upload bucket, download_all_objects is called
MainDownloadAll ==
    /\ SrcListed
    /\ env.upload_bucket = None
    /\ pc' = "dl_spawn"
    /\ tasks' = <<>>
    /\ permits' = MAX_CONCURRENT_OPERATIONS
    /\ UNCHANGED <<outcome, continuation_token, all_objects, list_result, upload_objects,
                   missing_items, file_paths, walk>>
    /\ MainUnchanged

\* line 109: the ? on a failed destination listing
MainDstListFailed ==
    /\ pc = "dst_listed"
    /\ list_result[1].tag = "Err"
    /\ pc' = "done"
    /\ outcome' = "err"
    /\ UNCHANGED <<continuation_token, all_objects, list_result, download_objects,
                   upload_objects, missing_items, tasks, permits, file_paths, walk>>
    /\ MainUnchanged

\* lines 109-110
MainDstListed ==
    /\ pc = "dst_listed"
    /\ list_result[1].tag = "Ok"
    /\ upload_objects' = list_result[1].val
    /\ pc' = "diff"
    /\ UNCHANGED <<outcome, continuation_token, all_objects, list_result, download_objects,
                   missing_items, tasks, permits, file_paths, walk>>
    /\ MainUnchanged

\* lines 112-121 and 251-252: the diff, then get_missing_objects is called
MainDiff ==
    /\ pc = "diff"
    /\ missing_items' = find_missing_items(download_objects, upload_objects)
    /\ pc' = "get_spawn"
    /\ tasks' = <<>>
    /\ permits' = MAX_CONCURRENT_OPERATIONS
    /\ UNCHANGED <<outcome, continuation_token, all_objects, list_result, download_objects,
                   upload_objects, file_paths, walk>>
    /\ MainUnchanged

\* lines 121-124 and 346-356: upload_missing_objects is called and glob
\* rejects the pattern: "Error globbing" is printed and Ok(()) returned
UploadGlobFails ==
    /\ pc = "get_ret"
    /\ SchedulerResult.tag = "Ok"
    /\ GlobPatternError(env.download_path)
    /\ pc' = "upload_ret"
    /\ tasks' = <<>>
    /\ permits' = MAX_CONCURRENT_OPERATIONS
    /\ file_paths' = <<>>
    /\ walk' = 1
    /\ UNCHANGED <<outcome, continuation_token, all_objects, list_result, download_objects,
                   upload_objects, missing_items>>
    /\ MainUnchanged

\* lines 121-124 and 346-357: the ? on get_missing_objects' result, then
\* upload_missing_objects is called and globs the staging root
MainUpload ==
    /\ pc = "get_ret"
    /\ SchedulerResult.tag = "Ok" => ~GlobPatternError(env.download_path)
    /\ IF SchedulerResult.tag = "Err"
       THEN /\ pc' = "done"
            /\ outcome' = "err"
            /\ UNCHANGED <<tasks, permits, file_paths, walk>>
       ELSE /\ pc' = "upload_loop"
            /\ tasks' = <<>>
            /\ permits' = MAX_CONCURRENT_OPERATIONS
            /\ file_paths' = glob(fs, env.download_path)
            /\ walk' = 1
            /\ UNCHANGED outcome
    /\ UNCHANGED <<continuation_token, all_objects, list_result, download_objects,
                   upload_objects, missing_items>>
    /\ MainUnchanged

\* lines 124, 141 and 145: the ? on the last scheduler's result, then Ok(())
MainReturn ==
    /\ pc \in {"upload_ret", "dl_ret"}
    /\ pc' = "done"
    /\ LET returned == IF pc = "upload_ret" /\ walk <= Len(file_paths)
                        THEN StripFailure ELSE SchedulerResult
       IN  outcome' = IF returned.tag = "Err" THEN "err" ELSE "ok"
    /\ UNCHANGED <<continuation_token, all_objects, list_result, download_objects,
                   upload_objects, missing_items, tasks, permits, file_paths, walk>>
    /\ MainUnchanged

(***************************************************************************)
(* The runs.                                                               *)
(***************************************************************************)
ObjA == Object(<<"a">>)
ObjB == Object(<<"b">>)
ObjDB == Object(<<"d", "b">>)
ObjC == Object(<<"c">>)
ObjD == Object(<<"d">>)

SrcListings == {<<ObjA, ObjB, ObjDB>>, <<ObjA, NoKeyObject>>}
\* the source listings of the sync runs
SyncListings == {<<ObjA, ObjB, ObjDB>>, <<ObjA, NoKeyObject>>}
\* a key that is also the directory of another key
NestedListing == <<ObjD, ObjDB>>
\* a download path that glob cannot take as a pattern
BadPatternPath == <<"s[">>
\* a longer source listing, for the download-only run
LongListing == <<ObjA, ObjB, ObjC, ObjDB>>

DstListings == {<<>>, <<ObjA>>, <<ObjA, ObjB, ObjDB>>}

\* --download-path: "s", "./s" (the shape of the default "./files") and "s*"
DownloadPaths == {<<"s">>, <<".", "s">>, <<"s*">>}

\* the staging tree before the run: empty, or one old file; the old file
\* s/src/d lies where the key d/b needs a directory
StartTrees ==
    {EmptyFs, FsWith(<<"s", "o">>), FsWith(<<"sx", "o">>), FsWith(<<"s", "src", "d">>)}

\* the command lines: --upload-bucket or not, --upload-profile or not,
\* --upload-region or not
CommandLines ==
    {[upload_bucket |-> b, upload_profile |-> p, upload_region |-> r] :
        b \in {None, Some("dst")}, p \in BOOLEAN, r \in BOOLEAN}

Env(path, cl, build, default_region, src, dst, f) ==
    [bucket |-> "src", download_path |-> path, upload_bucket |-> cl.upload_bucket,
     upload_profile |-> cl.upload_profile, upload_region |-> cl.upload_region,
     build |-> build, default_region |-> default_region,
     pages |-> [src |-> src, dst |-> dst], fs0 |-> f]

\* a Cli with upload bucket, upload profile and upload region
SyncCli == [upload_bucket |-> Some("dst"), upload_profile |-> TRUE, upload_region |-> TRUE]

\* a Cli with an upload bucket and an upload profile only
SkipCli == [upload_bucket |-> Some("dst"), upload_profile |-> TRUE, upload_region |-> FALSE]

\* a Cli without upload options
DownloadCli == [upload_bucket |-> None, upload_profile |-> FALSE, upload_region |-> FALSE]

InitRest ==
    /\ outcome = "running"
    /\ continuation_token = None
    /\ all_objects = <<>>
    /\ list_result = None
    /\ list_log = <<>>
    /\ missing_items = {}
    /\ tasks = <<>>
    /\ permits = MAX_CONCURRENT_OPERATIONS
    /\ fs = env.fs0
    /\ file_paths = <<>>
    /\ walk = 1
    /\ gets = {}
    /\ puts = {}

(***************************************************************************)
(* The program run from a command line.  No command line passes Cli::parse *)
(* with both --upload-profile and --upload-region, so these runs end at    *)
(* the parse, at the making of the client, after the source listing (line  *)
(* 104), or go through download_all_objects.                               *)
(***************************************************************************)
Init ==
    /\ \/ \E cl \in CommandLines, build \in {"release", "debug"}, region \in BOOLEAN :
             /\ build = "debug" \/ ~region \/ ParseCli(cl @@ [build |-> build]) # "ok"
             /\ env = Env(<<"s">>, cl, build, region, Paginate(<<ObjA>>, 1),
                          Paginate(<<>>, 1), EmptyFs)
       \/ \E cl \in {c \in CommandLines : c.upload_bucket # None}, src \in SrcListings :
             env = Env(<<"s">>, cl, "release", TRUE, Paginate(src, 1), Paginate(<<>>, 1), EmptyFs)
       \/ \E path \in DownloadPaths, f \in StartTrees, src \in SrcListings \cup {LongListing} :
             env = Env(path, DownloadCli, "release", TRUE, Paginate(src, 1),
                       Paginate(<<>>, 1), f)
    /\ pc = "parse"
    /\ download_objects = <<>>
    /\ upload_objects = <<>>
    /\ InitRest

Next ==
    \/ MainParseFails
    \/ MainParsed
    \/ MainRegionPanics
    \/ MainCreateClient
    \/ \E b \in {"src", "dst"} : ListPage(b)
    \/ \E b \in {"src", "dst"} : ListRequestFails(b)
    \/ MainSrcListFailed
    \/ MainSkipUpload
    \/ MainDownloadAll
    \/ DownloadAllSpawn
    \/ DownloadAllJoin
    \/ MainReturn
    \/ \E i \in DOMAIN tasks : Acquire(i)
    \/ \E i \in DOMAIN tasks : DownloadKeyPanics(i)
    \/ \E i \in DOMAIN tasks : DownloadSend(i)
    \/ \E i \in DOMAIN tasks : DownloadGetFails(i)
    \/ \E i \in DOMAIN tasks : DownloadBodyFails(i)
    \/ \E i \in DOMAIN tasks : DownloadFetched(i)
    \/ \E i \in DOMAIN tasks : DownloadMkdirStep(i)
    \/ \E i \in DOMAIN tasks : DownloadMkdir(i)
    \/ \E i \in DOMAIN tasks : DownloadMkdirFails(i)
    \/ \E i \in DOMAIN tasks : DownloadCreate(i)
    \/ \E i \in DOMAIN tasks : DownloadCreateFails(i)
    \/ \E i \in DOMAIN tasks : DownloadWrite(i)
    \/ \E i \in DOMAIN tasks : DownloadWriteFails(i)
    \/ \E p \in DOMAIN fs.files : BackgroundWrite(p)
    \/ \E p \in DOMAIN fs.files : BackgroundWriteFails(p)

Spec == Init /\ [][Next]_vars

(***************************************************************************)
(* The sync arm of main (lines 106-124).  It runs on a Cli that holds an   *)
(* upload bucket, an upload profile and an upload region: a value of the   *)
(* struct that a caller of main's code builds itself, since Cli::parse     *)
(* accepts no command line that yields it.  The run starts after the       *)
(* parse, at line 92.                                                      *)
(***************************************************************************)
InitSync ==
    /\ \/ \E path \in DownloadPaths, f \in StartTrees, src \in SyncListings, dst \in DstListings :
             env = Env(path, SyncCli, "release", TRUE, Paginate(src, 1), Paginate(dst, 1), f)
       \/ env = Env(<<"s">>, SyncCli, "release", TRUE, Paginate(NestedListing, 1),
                    Paginate(<<>>, 1), EmptyFs)
       \/ env = Env(BadPatternPath, SyncCli, "release", TRUE, Paginate(<<ObjA>>, 1),
                    Paginate(<<>>, 1), EmptyFs)
    /\ pc = "client"
    /\ download_objects = <<>>
    /\ upload_objects = <<>>
    /\ InitRest

NextSync ==
    \/ MainCreateClient
    \/ \E b \in {"src", "dst"} : ListPage(b)
    \/ \E b \in {"src", "dst"} : ListRequestFails(b)
    \/ MainSrcListFailed
    \/ MainListDst
    \/ MainDstListFailed
    \/ MainDstListed
    \/ MainDiff
    \/ GetSpawn
    \/ GetJoin
    \/ MainUpload
    \/ UploadGlobFails
    \/ UploadSkipDir
    \/ UploadSpawn
    \/ UploadStripFails
    \/ UploadGlobError
    \/ UploadJoin
    \/ MainReturn
    \/ \E i \in DOMAIN tasks : Acquire(i)
    \/ \E i \in DOMAIN tasks : DownloadSend(i)
    \/ \E i \in DOMAIN tasks : DownloadGetFails(i)
    \/ \E i \in DOMAIN tasks : DownloadBodyFails(i)
    \/ \E i \in DOMAIN tasks : DownloadFetched(i)
    \/ \E i \in DOMAIN tasks : DownloadMkdirStep(i)
    \/ \E i \in DOMAIN tasks : DownloadMkdir(i)
    \/ \E i \in DOMAIN tasks : DownloadMkdirFails(i)
    \/ \E i \in DOMAIN tasks : DownloadCreate(i)
    \/ \E i \in DOMAIN tasks : DownloadCreateFails(i)
    \/ \E i \in DOMAIN tasks : DownloadWrite(i)
    \/ \E i \in DOMAIN tasks : DownloadWriteFails(i)
    \/ \E p \in DOMAIN fs.files : BackgroundWrite(p)
    \/ \E p \in DOMAIN fs.files : BackgroundWriteFails(p)
    \/ \E i \in DOMAIN tasks : UploadOpenFails(i)
    \/ \E i \in DOMAIN tasks : UploadOpen(i)
    \/ \E i \in DOMAIN tasks : UploadReadFails(i)
    \/ \E i \in DOMAIN tasks : UploadRead(i)
    \/ \E i \in DOMAIN tasks : UploadSend(i)
    \/ \E i \in DOMAIN tasks : UploadPutFails(i)
    \/ \E i \in DOMAIN tasks : UploadPutOk(i)

SpecSync == InitSync /\ [][NextSync]_vars

(***************************************************************************)
(* list_all_objects on its own, against any pages a service could send:    *)
(* main is run with an upload bucket and an upload profile only, so that   *)
(* it ends right after the source listing.                                 *)
(***************************************************************************)
PageContents == {<<>>, <<ObjA>>, <<ObjB, ObjDB>>}

AnyPages ==
    UNION {[1..n -> {Page(c, t, x) : c \in PageContents,
                                     t \in {None, Some(TRUE), Some(FALSE)},
                                     x \in {None} \cup {Some(j) : j \in 1..n}}]
           : n \in 1..MaxPages}

InitList ==
    /\ \E pages \in AnyPages :
          env = Env(<<"s">>, SkipCli, "release", TRUE, pages, Paginate(<<>>, 1), EmptyFs)
    /\ pc = "list_src"
    /\ download_objects = <<>>
    /\ upload_objects = <<>>
    /\ InitRest

NextList ==
    \/ ListPage("src")
    \/ ListRequestFails("src")
    \/ MainSrcListFailed
    \/ MainSkipUpload

SpecList == InitList /\ [][NextList]_vars

(***************************************************************************)
(* find_missing_items on its own, on any two short listings.               *)
(***************************************************************************)
DiffObjects == {ObjA, ObjB, NoKeyObject, Object(EmptyString)}

InitDiff ==
    /\ env = Env(<<"s">>, SyncCli, "release", TRUE, Paginate(<<>>, 1), Paginate(<<>>, 1), EmptyFs)
    /\ pc = "diff"
    /\ download_objects \in SeqsUpTo(DiffObjects, MaxLen)
    /\ upload_objects \in SeqsUpTo(DiffObjects, MaxLen)
    /\ InitRest

NextDiff == MainDiff

SpecDiff == InitDiff /\ [][NextDiff]_vars

(***************************************************************************)
(* Properties.                                                             *)
(***************************************************************************)
Waiting == {i \in DOMAIN tasks : tasks[i].st = "waiting"}

Completed(i) == tasks[i].st = "done" /\ tasks[i].out # "none"

Failed(i) == tasks[i].st = "done" /\ tasks[i].out \notin {"none", "ok"}

ListingFailed == \E n \in DOMAIN list_log : ~list_log[n].ok

SyncMode == env.upload_bucket # None /\ UploadReady

\* the file loop of upload_missing_objects ran to its end
WalkedAll == walk > Len(file_paths)

\* list_all_objects has run to its end on bucket b: its last request was
\* answered and the answer did not ask for another page
Listed(b) ==
    LET rs == Requests(b)
    IN  /\ rs # <<>>
        /\ \A n \in DOMAIN rs : rs[n].ok
        /\ rs[Len(rs)].is_truncated # Some(TRUE)

\* C1: at most MAX_CONCURRENT_OPERATIONS tasks are between permit
\* acquisition and completion at any time, in each of the three schedulers,
\* and a task that is still waiting for its permit has issued no get-object
\* or put-object request.
C1_ConcurrencyBound ==
    /\ Cardinality(Running) <= MAX_CONCURRENT_OPERATIONS
    /\ \A i \in Waiting :
          IF tasks[i].kind = "download"
          THEN \/ tasks[i].key = None
               \/ [bucket |-> env.bucket, key |-> tasks[i].key[1]] \notin gets
          ELSE \A p \in puts : p.path # tasks[i].path

\* as many tasks in flight as there are permits, and another one waiting
C1_Witness ==
    /\ pc = "get_spawn"
    /\ Cardinality(Running) = MAX_CONCURRENT_OPERATIONS
    /\ Waiting # {}

\* C2: whatever tasks fail, once a scheduler's join_all is through every
\* item it was given has had its own task run to completion: a failed task
\* neither ends the join early nor keeps another item's task from running.
C2_FailureIsolation ==
    /\ pc = "get_ret" =>
          \A k \in missing_items :
             \E i \in DOMAIN tasks : tasks[i].key = Some(k) /\ Completed(i)
    /\ pc = "dl_ret" =>
          \A n \in DOMAIN download_objects :
             n \in DOMAIN tasks /\ tasks[n].key = download_objects[n].key /\ Completed(n)
    /\ pc = "upload_ret" /\ WalkedAll =>
          \A n \in DOMAIN file_paths :
             IsDir(fs, file_paths[n])
             \/ \E i \in DOMAIN tasks : tasks[i].path = file_paths[n] /\ Completed(i)

\* the upload scheduler has returned with a failed upload beside a good one
C2_Witness ==
    /\ pc = "upload_ret"
    /\ WalkedAll
    /\ \E i, j \in DOMAIN tasks : Failed(i) /\ tasks[j].out = "ok"

\* C3: when a scheduler function returns, on any path, every task it
\* spawned is done.
C3_ReturnsAfterAllTasks ==
    pc \in {"get_ret", "dl_ret", "upload_ret"} => AllDone

\* C4: a successful response without a continuation token is the last
\* request of its listing.
C4_NoTokenEndsListing ==
    \A n \in 1..(Len(list_log) - 1) :
        list_log[n].ok /\ list_log[n + 1].bucket = list_log[n].bucket
            => list_log[n].next_continuation_token # None

\* C5: on well-formed pages the lister sends at most one request per page,
\* is through once the last page has been answered, and returns the keys of
\* all pages and no others.
C5_ListsUnionOfPages ==
    LET pages == env.pages.src
    IN  WellFormed(pages) =>
           /\ Len(Requests("src")) <= Len(pages)
           /\ pc = "list_src" => Len(Requests("src")) < Len(pages)
           /\ list_result # None /\ list_result[1].tag = "Ok" =>
                 /\ Len(Requests("src")) = Len(pages)
                 /\ SeqToSet(list_result[1].val)
                      = UNION {SeqToSet(pages[n].contents) : n \in DOMAIN pages}

\* a listing of two pages with different keys has been returned
C5_Witness ==
    /\ WellFormed(env.pages.src)
    /\ Len(env.pages.src) = 2
    /\ env.pages.src[1].contents = <<ObjA>>
    /\ env.pages.src[2].contents = <<ObjB, ObjDB>>
    /\ list_result = Some(Ok(<<ObjA, ObjB, ObjDB>>))

\* C6: find_missing_items returns the keys of the source listing that are
\* not keys of the destination listing, also when a listing repeats a key;
\* it is empty for equal listings and for an empty source, and all source
\* keys for an empty destination.
C6_DiffIsSetDifference ==
    LET a == {ObjectKeyFrom(download_objects[n]) : n \in DOMAIN download_objects}
        b == {ObjectKeyFrom(upload_objects[n]) : n \in DOMAIN upload_objects}
    IN  pc = "get_spawn" =>
           /\ \A k \in a \cup b \cup missing_items : k \in missing_items <=> (k \in a /\ k \notin b)
           /\ download_objects = upload_objects => missing_items = {}
           /\ upload_objects = <<>> => missing_items = a
           /\ download_objects = <<>> => missing_items = {}

\* the diff of a source that repeats a key against a destination that holds another
C6_Witness ==
    /\ pc = "get_spawn"
    /\ download_objects = <<ObjA, ObjA>>
    /\ upload_objects = <<ObjB>>
    /\ missing_items = {<<"a">>}

\* C7: a put-object request for a file the download phase wrote for the
\* key K is made under the key K.
C7_KeyPreserved ==
    \A p \in puts : p.body.kind = "object" => p.key = p.body.key

\* C8: in sync mode every get-object request is for a key of the missing
\* set, and every put-object request carries an object of the missing set
\* downloaded in this run, never a file that was in the staging tree before.
C8_OnlyMissingTransferred ==
    SyncMode =>
       /\ \A g \in gets : g.key \in missing_items
       /\ \A p \in puts : p.body.kind = "object" /\ p.body.key \in missing_items

WalkPanicked ==
    /\ pc = "done"
    /\ outcome = "panic"
    /\ \/ walk = 1 /\ GlobRoots(fs, env.download_path) # {}
       \/ walk > 1 /\ walk - 1 \in DOMAIN file_paths /\ IsDir(fs, file_paths[walk - 1])

C10_ListingAllOrNothing ==
    ListingFailed =>
       /\ list_result = Some(Err("ListObjectsError"))
       /\ pc \in {"src_listed", "dst_listed", "done"}
       /\ pc = "done" => outcome = "err"
       /\ tasks = <<>>
       /\ gets = {} /\ puts = {}
       /\ fs = env.fs0

\* the destination listing failed on its second page and main has returned
C10_Witness ==
    /\ pc = "done"
    /\ outcome = "err"
    /\ all_objects # <<>>
    /\ list_log[Len(list_log)].bucket = "dst"
    /\ list_log[Len(list_log)].token # None

\* a scheduler function has returned
SchedulerReturned == pc \in {"get_ret", "dl_ret", "upload_ret"}

\* C11: in every state the free permits and the permits held by running
\* tasks add up to MAX_CONCURRENT_OPERATIONS, a task that has ended by
\* success, error or panic holds none, and when a scheduler function has
\* returned Ok all the permits are free.
C11_PermitAccounting ==
    /\ permits \in 0..MAX_CONCURRENT_OPERATIONS
    /\ permits + Cardinality(Running) = MAX_CONCURRENT_OPERATIONS
    /\ SchedulerReturned => permits = MAX_CONCURRENT_OPERATIONS

\* C12: every download that failed, whether at the get-object request, at
\* the read of the body, at the creation of the directory, at the creation
\* of the file or at the write, has printed a line naming its key; a
\* download that ended without a report has not lost its write.
C12_DownloadFailuresReported ==
    /\ \A i \in DOMAIN tasks :
       (tasks[i].kind = "download" /\ Failed(i) /\ tasks[i].out \in DownloadOutcomes) =>
          /\ process_object_prints(tasks[i].key[1], tasks[i].out) # None
          /\ process_object_prints(tasks[i].key[1], tasks[i].out)[1].key = tasks[i].key[1]
    /\ \A i \in DOMAIN tasks :
          (tasks[i].kind = "download" /\ tasks[i].out = "ok") =>
             \/ fs.files[DownloadPath(i)].pending
             \/ fs.files[DownloadPath(i)].complete

\* upload_missing_objects has stopped at a file whose path strip_prefix
\* could not make relative to the staging root
StripFailed ==
    /\ SyncMode
    /\ pc \in {"upload_ret", "done"}
    /\ outcome # "panic"
    /\ walk \in DOMAIN file_paths
    /\ ~IsDir(fs, file_paths[walk])
    /\ UploadKey(file_paths[walk]) = None

\* C13: when a walked path is not below the staging root,
\* upload_missing_objects returns an error and main ends with an error.
C13_StripFailureIsFatal ==
    StripFailed =>
       /\ pc = "upload_ret" => StripFailure.tag = "Err"
       /\ pc = "done" => outcome = "err"

\* C14: in a sync run both listings are complete before the diff, the diff
\* is computed before any download task exists or any get is issued, every
\* download task has ended before the staging directory is walked and
\* before any upload task exists or any put is issued, and no upload reads
\* a file while the write of its download is still under way.
C14_PhaseOrder ==
    SyncMode =>
       /\ pc \in {"diff", "get_spawn", "get_ret", "upload_loop", "upload_ret"} =>
             /\ Listed("src") /\ Listed("dst")
             /\ list_result = Some(Ok(upload_objects))
       /\ (tasks # <<>> \/ gets # {}) =>
             /\ pc \in {"get_spawn", "get_ret", "upload_loop", "upload_ret", "done"}
             /\ missing_items = find_missing_items(download_objects, upload_objects)
       /\ pc \in {"get_spawn", "get_ret"} =>
             /\ \A i \in DOMAIN tasks : tasks[i].kind = "download"
             /\ file_paths = <<>> /\ puts = {}
       /\ pc = "get_ret" => AllDone
       /\ (file_paths # <<>> \/ puts # {} \/ \E i \in DOMAIN tasks : tasks[i].kind = "upload") =>
             /\ pc \in {"upload_loop", "upload_ret", "done"}
             /\ \A i \in DOMAIN tasks : tasks[i].kind = "download" => tasks[i].st = "done"
       /\ \A p \in puts : ~p.body.pending

(***************************************************************************)
(* The download schedulers under a fair scheduling of their tasks: a task  *)
(* that can take a permit eventually takes it, a worker that runs          *)
(* eventually ends, and the scheduler function itself keeps running.  The  *)
(* schedulers are started as main calls them.  The writes left pending on  *)
(* the blocking pool run beside the tasks; nothing is assumed about when   *)
(* they are carried out.                                                   *)
(***************************************************************************)
\* one object more than there are permits
FairListing == <<ObjA, ObjB, ObjC>>

\* the most tasks a scheduler spawns in these runs
MaxTasks == Len(FairListing)

InitFair ==
    /\ \/ /\ env = Env(<<"s">>, SyncCli, "release", TRUE, Paginate(<<>>, 1),
                        Paginate(<<>>, 1), EmptyFs)
          /\ pc = "get_spawn"
          /\ missing_items \in {CollectKeys(FairListing), CollectKeys(<<ObjA>>)}
          /\ download_objects = <<>>
       \/ /\ env = Env(<<"s">>, DownloadCli, "release", TRUE, Paginate(<<>>, 1),
                        Paginate(<<>>, 1), EmptyFs)
          /\ pc = "dl_spawn"
          /\ missing_items = {}
          /\ download_objects \in {FairListing, <<ObjA, NoKeyObject>>}
    /\ upload_objects = <<>>
    /\ outcome = "running"
    /\ continuation_token = None
    /\ all_objects = <<>>
    /\ list_result = None
    /\ list_log = <<>>
    /\ tasks = <<>>
    /\ permits = MAX_CONCURRENT_OPERATIONS
    /\ fs = env.fs0
    /\ file_paths = <<>>
    /\ walk = 1
    /\ gets = {}
    /\ puts = {}

NextFair ==
    \/ GetSpawn
    \/ GetJoin
    \/ DownloadAllSpawn
    \/ DownloadAllJoin
    \/ \E i \in DOMAIN tasks : Acquire(i)
    \/ \E i \in DOMAIN tasks : DownloadKeyPanics(i)
    \/ \E i \in DOMAIN tasks : DownloadSend(i)
    \/ \E i \in DOMAIN tasks : DownloadGetFails(i)
    \/ \E i \in DOMAIN tasks : DownloadBodyFails(i)
    \/ \E i \in DOMAIN tasks : DownloadFetched(i)
    \/ \E i \in DOMAIN tasks : DownloadMkdirStep(i)
    \/ \E i \in DOMAIN tasks : DownloadMkdir(i)
    \/ \E i \in DOMAIN tasks : DownloadMkdirFails(i)
    \/ \E i \in DOMAIN tasks : DownloadCreate(i)
    \/ \E i \in DOMAIN tasks : DownloadCreateFails(i)
    \/ \E i \in DOMAIN tasks : DownloadWrite(i)
    \/ \E i \in DOMAIN tasks : DownloadWriteFails(i)
    \/ \E p \in DOMAIN fs.files : BackgroundWrite(p)
    \/ \E p \in DOMAIN fs.files : BackgroundWriteFails(p)

\* a step of the worker of task i: every await of a worker that runs is
\* answered, one way or another
WorkerStep(i) ==
    \/ DownloadKeyPanics(i)
    \/ DownloadSend(i)
    \/ DownloadGetFails(i) \/ DownloadBodyFails(i) \/ DownloadFetched(i)
    \/ DownloadMkdirStep(i) \/ DownloadMkdir(i) \/ DownloadMkdirFails(i)
    \/ DownloadCreate(i) \/ DownloadCreateFails(i)
    \/ DownloadWrite(i) \/ DownloadWriteFails(i)

Fairness ==
    /\ \A i \in 1..MaxTasks : WF_vars(Acquire(i)) /\ WF_vars(WorkerStep(i))
    /\ WF_vars(GetSpawn) /\ WF_vars(GetJoin)
    /\ WF_vars(DownloadAllSpawn) /\ WF_vars(DownloadAllJoin)

SpecFair == InitFair /\ [][NextFair]_vars /\ Fairness

\* C15: when every worker that runs ends and the tasks are scheduled
\* fairly, every task a download scheduler has spawned eventually takes a
\* permit and starts its worker, also when there are more tasks than
\* permits, and the scheduler function eventually returns.
C15_Progress ==
    /\ \A i \in 1..MaxTasks :
          (i \in DOMAIN tasks /\ tasks[i].st = "waiting")
             ~> (i \in DOMAIN tasks /\ tasks[i].st \in {"running", "done"})
    /\ (pc = "get_spawn") ~> (pc = "get_ret")
    /\ (pc = "dl_spawn") ~> (pc = "dl_ret")

\* get_missing_objects has returned after it had spawned more tasks than
\* there are permits, and every one of them has run
C15_Witness ==
    /\ pc = "get_ret"
    /\ Len(tasks) > MAX_CONCURRENT_OPERATIONS
    /\ \A i \in DOMAIN tasks : Completed(i)

\* C16: the first list request of a listing carries no continuation token,
\* and every later request follows an answered request and carries the
\* next-continuation token of that answer, which is a token and not None.
C16_TokenThreading ==
    \A b \in {"src", "dst"} :
       LET rs == Requests(b)
       IN  /\ rs # <<>> => rs[1].token = None
           /\ \A n \in 2..Len(rs) :
                 /\ rs[n - 1].ok
                 /\ rs[n].token = rs[n - 1].next_continuation_token
                 /\ rs[n].token # None

\* the keys of the destination bucket after the run: those it listed and
\* those of the put-object requests that succeeded (lines 396-402)
DestinationKeys ==
    CollectKeys(upload_objects) \cup {p.key : p \in {q \in puts : q.ok}}

\* a sync run has ended in which every object of the missing set was
\* downloaded whole and every upload task put its file
AllSucceeded ==
    /\ SyncMode
    /\ pc = "done"
    /\ outcome = "ok"
    /\ WalkedAll
    /\ \A i \in DOMAIN tasks : tasks[i].out = "ok"
    /\ \A k \in missing_items :
          \E p \in puts : p.ok /\ p.body = ObjectData(k, TRUE)

\* C17: after a sync run that started from an empty staging directory and
\* in which every download and every upload succeeded, the destination
\* holds every key of the source listing, so that the next run computes an
\* empty missing set.
C17_Converges ==
    (env.fs0 = EmptyFs /\ AllSucceeded) =>
       Difference(CollectKeys(download_objects), DestinationKeys) = {}

\* C18: in a sync run that started from an empty staging directory every
\* put-object request carries the whole content of an object whose
\* download succeeded; a file left behind by a download that failed is
\* never put.
C18_NoUploadOfFailedDownload ==
    (SyncMode /\ env.fs0 = EmptyFs) =>
       \A p \in puts : p.body.kind = "object" /\ p.body.complete

\* an upload bucket was given without an upload profile or region
SkipMode == env.upload_bucket # None /\ ~UploadReady

\* no upload bucket was given
DownloadOnly == env.upload_bucket = None

\* C19: with an upload bucket but without upload profile or upload region
\* the run, unless a listing request or the region lookup fails, ends with
\* Ok after the source listing, having sent no request to the destination,
\* issued no get or put, spawned no task and written no file; with no
\* upload bucket no put is ever issued and download_all_objects spawns
\* exactly one download task for each object of the source listing.
C19_ModeDispatch ==
    /\ SkipMode =>
          /\ Requests("dst") = <<>>
          /\ gets = {} /\ puts = {}
          /\ tasks = <<>>
          /\ fs = env.fs0
          /\ (pc = "done" /\ outcome \notin {"err", "panic"}) =>
                outcome = "ok" /\ Listed("src")
    /\ DownloadOnly =>
          /\ Requests("dst") = <<>>
          /\ puts = {}
          /\ file_paths = <<>>
          /\ Len(tasks) <= Len(download_objects)
          /\ \A n \in DOMAIN tasks :
                tasks[n].kind = "download" /\ tasks[n].key = download_objects[n].key
          /\ pc = "dl_ret" =>
                /\ download_objects = all_objects
                /\ Len(tasks) = Len(download_objects)

====
